---- MODULE Spec2Model ----
(***************************************************************************)
(* Leave-balance reconciliation and overtime-compensation ledger of the    *)
(* HR application: the mutation handlers of LeaveRequestFormDialog,        *)
(* LeaveRequests, OvertimeCompensationFormDialog and OvertimeCompensations *)
(* over the employees, leave_requests and overtime_compensations tables;   *)
(* and its two calculators, calculateNetPay and calculateAttendanceMetrics.*)
(*                                                                         *)
(* Dates are day numbers 1..MaxDay.  Hours are counted in whole units.     *)
(* Every handler is one action; a store call that fails is the input       *)
(* `fail` naming the call.                                                 *)
(***************************************************************************)
EXTENDS Integers, FiniteSets, Sequences, TLC

\* ---------------------------------------------------------------- bounds
MaxDay == 2
MaxBalance == 2
MaxRequests == 2
MaxFailures == 2
MaxHours == 2
MaxCompensations == 2
MaxOvertimeOps == 3
MaxStoreRequests == 1
MaxAmount == 12
MaxMinute == 3
MaxBreak == 2
MaxThreshold == 2
MaxMonth == 2
MaxMonthDay == 2
MaxOvertimeHours == 2
MaxMultiplier == 3
MaxTyped == 1

\* ------------------------------------------------------------ value sets
\* The overtime balance a new employee is given.
DefaultOvertimeHoursBalance == 0
Employees == {"e1", "e2"}
\* Sick stands for the five types other than Annual, which the code never
\* tells apart; Submitted and Rejected for the three statuses other than Approved.
LeaveTypes == {"Annual", "Sick"}
LeaveStatuses == {"Submitted", "Approved", "Rejected"}
Days == 1..MaxDay
LeaveIds == 1..MaxRequests
NoRecord == [absent |-> TRUE]
NoId == 0

\* The fields of the form the user sets.  The form also carries days_deducted,
\* which no field edits: it is the value of the row the dialog was opened on.
LeaveRequestFormFields ==
  [employee_id : Employees, type : LeaveTypes, status : LeaveStatuses,
   start_date : Days, end_date : Days]

\* defaultValues / form.reset: the submitted values for the row being edited.
formValues(fields, row) ==
  [employee_id |-> fields.employee_id, type |-> fields.type,
   status |-> fields.status, start_date |-> fields.start_date,
   end_date |-> fields.end_date,
   days_deducted |-> IF row = NoRecord THEN 0 ELSE row.days_deducted]

\* The store calls of the leave upsert, in the order they are issued.
LeaveStoreCalls == {"fetchOriginal", "fetchEmployee", "updateBalance", "writeRecord"}
\* The leave handlers are explored with every store call succeeding ...
LeaveFaults == {"none"}
\* ... and, over a smaller table, with any one of their calls failing.
LeaveStoreFaults == {"none"} \cup LeaveStoreCalls

CompensationIds == 1..MaxCompensations
Hours == 1..MaxHours
OvertimeCompensationFormValues == [employee_id : Employees, compensated_hours : Hours]
\* The store calls of the compensation upsert and of its delete, in order.
CompensationStoreCalls ==
  {"fetchOld", "writeRecord", "fetchEmployee", "refetchOld", "updateBalance"}
CompensationDeleteCalls == {"fetchOld", "delete", "fetchEmployee", "updateBalance"}

VARIABLES
  annual_leave_balance,          \* employees.annual_leave_balance, per employee
  leave_requests,                \* leave_requests table: id -> row or NoRecord
  employees,                     \* the ids of the signed-in user's employees rows
  last,                          \* the handler that ran last: its inputs and its outcome
  initial_annual_leave_balance,  \* the balances at the start (never written)
  storeFailures,                 \* store calls that failed so far
  employeeMoved,                 \* an edit has changed a request's employee_id
  overtime_hours_balance,        \* employees.overtime_hours_balance, per employee
  overtime_compensations,        \* overtime_compensations table: id -> row or NoRecord
  overtimeOps                    \* compensation handlers run so far

leaveVars == <<annual_leave_balance, leave_requests, initial_annual_leave_balance,
               employeeMoved>>
overtimeVars == <<overtime_hours_balance, overtime_compensations, overtimeOps>>
vars == <<annual_leave_balance, leave_requests, employees, last,
          initial_annual_leave_balance, storeFailures, employeeMoved,
          overtime_hours_balance, overtime_compensations, overtimeOps>>

\* ------------------------------------------------------- leave: helpers
calculateCalendarDays(startDate, endDate) ==
  IF endDate < startDate THEN 0 ELSE (endDate - startDate) + 1

newCalculatedDaysForLeave(values) ==
  IF values.type = "Annual" /\ values.status = "Approved"
    THEN calculateCalendarDays(values.start_date, values.end_date)
    ELSE 0

wasApprovedAnnual(oldLeaveRequest) ==
  oldLeaveRequest.status = "Approved" /\ oldLeaveRequest.type = "Annual"

isApprovedAnnual(values) ==
  values.status = "Approved" /\ values.type = "Annual"

\* Was approved annual, now it is not: credit back the original deduction.
creditBack_none(oldDaysDeducted) == 0
creditBack(oldDaysDeducted) == oldDaysDeducted

\* Was approved annual, still approved annual: adjust for a changed day count.
reapply_deductOnly(oldDaysDeducted, newDays) ==
  IF oldDaysDeducted # newDays THEN 0 - newDays ELSE 0
reapply_always(oldDaysDeducted, newDays) == 0 - newDays
reapply(oldDaysDeducted, newDays) ==
  IF oldDaysDeducted # newDays THEN oldDaysDeducted - newDays ELSE 0

\* Step 3 of the mutation: the signed adjustment of the employee's balance.
balanceAdjustment(isEdit, oldLeaveRequest, values) ==
  LET oldDaysDeducted == IF isEdit THEN oldLeaveRequest.days_deducted ELSE 0
      newDays == newCalculatedDaysForLeave(values)
  IN IF isEdit
       THEN IF wasApprovedAnnual(oldLeaveRequest) /\ ~isApprovedAnnual(values)
              THEN creditBack(oldDaysDeducted)
            ELSE IF ~wasApprovedAnnual(oldLeaveRequest) /\ isApprovedAnnual(values)
              THEN 0 - newDays
            ELSE IF wasApprovedAnnual(oldLeaveRequest) /\ isApprovedAnnual(values)
              THEN reapply(oldDaysDeducted, newDays)
            ELSE 0
       ELSE IF values.status = "Approved" /\ values.type = "Annual"
              THEN 0 - newDays
              ELSE 0

\* Step 4's guard: the write is refused.
insufficientBalance_offByOne(updatedBalance) == updatedBalance < 0 - 1
insufficientBalance_never(updatedBalance) == FALSE
insufficientBalance(updatedBalance) == updatedBalance < 0

\* Step 5: the row written to leave_requests.
leavePayload_formDays(values, newDays) ==
  [employee_id |-> values.employee_id, type |-> values.type,
   status |-> values.status, start_date |-> values.start_date,
   end_date |-> values.end_date, days_deducted |-> values.days_deducted]
leavePayload(values, newDays) ==
  [employee_id |-> values.employee_id, type |-> values.type,
   status |-> values.status, start_date |-> values.start_date,
   end_date |-> values.end_date, days_deducted |-> newDays]

\* The columns the mutation selects from the stored request.
originalRequest(row) ==
  [status |-> row.status, type |-> row.type,
   days_deducted |-> row.days_deducted, employee_id |-> row.employee_id]

\* The tables before any handler has run.
InitTables ==
  /\ employees \in {{"e1"}, Employees}
  /\ annual_leave_balance = [e \in Employees |-> MaxBalance]
  /\ initial_annual_leave_balance = annual_leave_balance
  /\ leave_requests = [id \in LeaveIds |-> NoRecord]
  /\ storeFailures = 0
  /\ employeeMoved = FALSE
  /\ overtime_hours_balance = [e \in Employees |-> DefaultOvertimeHoursBalance]
  /\ overtime_compensations = [id \in CompensationIds |-> NoRecord]
  /\ overtimeOps = 0

Init == InitTables /\ last = [op |-> "init"]

\* ----------------------------------------------------- leave: handlers
\* The error a failing store call returns and the handler throws on: whatever
\* the store says of that call, here the name of the call.
storeError(call) == call

\* upsertLeaveRequestMutation.mutationFn; id = NoId creates, else edits row id.
upsertLeaveRequestMutation(id, values, fail) ==
  LET isEdit == id # NoId
      oldLeaveRequest == IF isEdit THEN originalRequest(leave_requests[id]) ELSE NoRecord
      newEmployeeId == values.employee_id
      oldEmployeeAnnualLeaveBalance == annual_leave_balance[newEmployeeId]
      newDays == newCalculatedDaysForLeave(values)
      adjustment == balanceAdjustment(isEdit, oldLeaveRequest, values)
      updatedBalance == oldEmployeeAnnualLeaveBalance + adjustment
      readFailed == \/ (isEdit /\ fail = "fetchOriginal")
                    \/ fail = "fetchEmployee"
      refused == ~readFailed /\ adjustment # 0 /\ insufficientBalance(updatedBalance)
      balanceCall == ~readFailed /\ adjustment # 0 /\ ~refused
      balanceFailed == balanceCall /\ fail = "updateBalance"
      balanceWritten == balanceCall /\ ~balanceFailed
      recordCall == ~readFailed /\ ~refused /\ ~balanceFailed
      recordFailed == recordCall /\ fail = "writeRecord"
      recordWritten == recordCall /\ ~recordFailed
      failed == readFailed \/ balanceFailed \/ recordFailed
      \* the tables written to, in the order the calls are issued
      writes == (IF balanceCall THEN <<"employees">> ELSE <<>>)
                  \o (IF recordCall THEN <<"leave_requests">> ELSE <<>>)
      newId == IF isEdit THEN id
               ELSE CHOOSE i \in LeaveIds :
                      /\ leave_requests[i] = NoRecord
                      /\ \A j \in LeaveIds : leave_requests[j] = NoRecord => i <= j
  IN /\ fail # "none" => failed
     /\ failed => storeFailures < MaxFailures
     /\ storeFailures' = IF failed THEN storeFailures + 1 ELSE storeFailures
     /\ annual_leave_balance' =
          IF balanceWritten
            THEN [annual_leave_balance EXCEPT ![newEmployeeId] = updatedBalance]
            ELSE annual_leave_balance
     /\ leave_requests' =
          IF recordWritten
            THEN [leave_requests EXCEPT ![newId] = leavePayload(values, newDays)]
            ELSE leave_requests
     /\ employeeMoved' =
          (employeeMoved \/ (isEdit /\ recordWritten
                             /\ oldLeaveRequest.employee_id # newEmployeeId))
     /\ last' = [op |-> IF isEdit THEN "leave_update" ELSE "leave_create",
                 id |-> newId, values |-> values, fail |-> fail,
                 oldEmployeeAnnualLeaveBalance |-> oldEmployeeAnnualLeaveBalance,
                 outcome |-> IF refused THEN "insufficient"
                             ELSE IF failed THEN "store_error" ELSE "success",
                 writes |-> writes, balanceWritten |-> balanceWritten,
                 \* onSuccess / onError: the toast the user is shown
                 toast |-> IF refused
                             THEN [kind |-> "error", message |-> "Solde insuffisant"]
                           ELSE IF failed
                             THEN [kind |-> "error", message |-> storeError(fail)]
                           ELSE [kind |-> "success", message |-> "enregistree"]]
     /\ UNCHANGED <<initial_annual_leave_balance, employees, overtimeVars>>

\* The bound on the table: rows times employees stays within MaxRequests.
RoomForRequest ==
  (Cardinality({i \in LeaveIds : leave_requests[i] # NoRecord}) + 1)
     * Cardinality(employees) <= MaxRequests

CreateLeaveRequest ==
  \E fields \in LeaveRequestFormFields, fail \in LeaveFaults :
    /\ fields.employee_id \in employees
    /\ RoomForRequest
    /\ upsertLeaveRequestMutation(NoId, formValues(fields, NoRecord), fail)

UpdateLeaveRequest ==
  \E id \in LeaveIds, fields \in LeaveRequestFormFields,
     fail \in LeaveFaults :
    /\ leave_requests[id] # NoRecord
    /\ fields.employee_id \in employees
    /\ upsertLeaveRequestMutation(id, formValues(fields, leave_requests[id]), fail)

\* deleteLeaveRequestMutation.mutationFn: one delete call, nothing else.
deleteLeaveRequestMutation(leaveRequestId, fail) ==
  LET failed == fail = "delete"
  IN /\ failed => storeFailures < MaxFailures
     /\ storeFailures' = IF failed THEN storeFailures + 1 ELSE storeFailures
     /\ leave_requests' =
          IF failed THEN leave_requests
          ELSE [leave_requests EXCEPT ![leaveRequestId] = NoRecord]
     /\ last' = [op |-> "leave_delete", id |-> leaveRequestId, fail |-> fail,
                 outcome |-> IF failed THEN "store_error" ELSE "success"]
     /\ UNCHANGED <<annual_leave_balance, initial_annual_leave_balance,
                     employeeMoved, employees, overtimeVars>>

DeleteLeaveRequest ==
  \E id \in LeaveIds, fail \in LeaveFaults :
    /\ leave_requests[id] # NoRecord
    /\ deleteLeaveRequestMutation(id, fail)

\* The same handlers with store calls that may fail, on a smaller table:
\* rows times employees stays within MaxStoreRequests.
RoomForRequestStore ==
  (Cardinality({i \in LeaveIds : leave_requests[i] # NoRecord}) + 1)
     * Cardinality(employees) <= MaxStoreRequests

CreateLeaveRequestStore ==
  \E fields \in LeaveRequestFormFields, fail \in LeaveStoreFaults :
    /\ fields.employee_id \in employees
    /\ RoomForRequestStore
    /\ upsertLeaveRequestMutation(NoId, formValues(fields, NoRecord), fail)

UpdateLeaveRequestStore ==
  \E id \in LeaveIds, fields \in LeaveRequestFormFields,
     fail \in LeaveStoreFaults :
    /\ leave_requests[id] # NoRecord
    /\ fields.employee_id \in employees
    /\ upsertLeaveRequestMutation(id, formValues(fields, leave_requests[id]), fail)

DeleteLeaveRequestStore ==
  \E id \in LeaveIds, fail \in {"none", "delete"} :
    /\ leave_requests[id] # NoRecord
    /\ deleteLeaveRequestMutation(id, fail)

\* ------------------------------------ leave: two submissions at once
\* Two dialogs (two tabs, two users of one account) each submit a new request;
\* every awaited store call of mutationFn is a step of its own.  `last` holds
\* the two submissions in flight: where each stands, its form values and the
\* balance it has read.
Submissions == {1, 2}
IdleSubmission == [pc |-> "idle"]

\* The balance the update call writes: computed from the balance read.
updatedBalance_fromStore(stored, oldEmployeeAnnualLeaveBalance, adjustment) ==
  stored + adjustment
updatedBalance(stored, oldEmployeeAnnualLeaveBalance, adjustment) ==
  oldEmployeeAnnualLeaveBalance + adjustment

InitLeaveConcurrent ==
  /\ InitTables
  /\ last = [op |-> "concurrent", submission |-> [s \in Submissions |-> IdleSubmission]]

\* onSubmit: mutate(values).
SubmitLeaveRequest(s) ==
  /\ last.op = "concurrent" /\ last.submission[s].pc = "idle"
  /\ \E fields \in LeaveRequestFormFields :
       /\ fields.employee_id \in employees
       /\ last' = [last EXCEPT !.submission[s] =
                     [pc |-> "fetchEmployee", values |-> formValues(fields, NoRecord)]]
  /\ UNCHANGED <<leaveVars, employees, storeFailures, overtimeVars>>

\* The read of the employee's balance, and the decision taken on it.
FetchEmployeeBalance(s) ==
  /\ last.op = "concurrent" /\ last.submission[s].pc = "fetchEmployee"
  /\ LET values == last.submission[s].values
         oldEmployeeAnnualLeaveBalance == annual_leave_balance[values.employee_id]
         adjustment == balanceAdjustment(FALSE, NoRecord, values)
     IN last' = [last EXCEPT !.submission[s] =
                   [pc |-> IF adjustment = 0 THEN "writeRecord"
                           ELSE IF insufficientBalance(oldEmployeeAnnualLeaveBalance
                                                         + adjustment)
                             THEN "insufficient"
                           ELSE "updateBalance",
                    values |-> values,
                    oldEmployeeAnnualLeaveBalance |-> oldEmployeeAnnualLeaveBalance]]
  /\ UNCHANGED <<leaveVars, employees, storeFailures, overtimeVars>>

\* The update of employees.annual_leave_balance.
UpdateEmployeeBalance(s) ==
  /\ last.op = "concurrent" /\ last.submission[s].pc = "updateBalance"
  /\ LET sub == last.submission[s]
         e == sub.values.employee_id
     IN annual_leave_balance' =
          [annual_leave_balance EXCEPT ![e] =
             updatedBalance(annual_leave_balance[e], sub.oldEmployeeAnnualLeaveBalance,
                            balanceAdjustment(FALSE, NoRecord, sub.values))]
  /\ last' = [last EXCEPT !.submission[s].pc = "writeRecord"]
  /\ UNCHANGED <<leave_requests, initial_annual_leave_balance, employeeMoved,
                  employees, storeFailures, overtimeVars>>

\* The insert into leave_requests.
InsertLeaveRequest(s) ==
  /\ last.op = "concurrent" /\ last.submission[s].pc = "writeRecord"
  /\ LET values == last.submission[s].values
         newId == CHOOSE i \in LeaveIds :
                    /\ leave_requests[i] = NoRecord
                    /\ \A j \in LeaveIds : leave_requests[j] = NoRecord => i <= j
     IN /\ leave_requests' =
             [leave_requests EXCEPT
                ![newId] = leavePayload(values, newCalculatedDaysForLeave(values))]
        /\ last' = [last EXCEPT !.submission[s] =
                      [pc |-> "done", values |-> values, id |-> newId,
                       oldEmployeeAnnualLeaveBalance |->
                         last.submission[s].oldEmployeeAnnualLeaveBalance]]
  /\ UNCHANGED <<annual_leave_balance, initial_annual_leave_balance, employeeMoved,
                  employees, storeFailures, overtimeVars>>

NextLeaveConcurrent ==
  \E s \in Submissions :
    \/ SubmitLeaveRequest(s)
    \/ FetchEmployeeBalance(s)
    \/ UpdateEmployeeBalance(s)
    \/ InsertLeaveRequest(s)

\* ------------------------------------------------ overtime: handlers
\* The row written to overtime_compensations.
compensationPayload(values) ==
  [employee_id |-> values.employee_id, compensated_hours |-> values.compensated_hours]

\* onSuccess, creating: simply subtract.
createdOvertimeBalance_floored(balance, compensatedHours) ==
  IF balance - compensatedHours < 0 THEN 0 ELSE balance - compensatedHours
createdOvertimeBalance(balance, compensatedHours) == balance - compensatedHours

\* onSuccess, editing: the balance after reverting the old hours and applying the new.
\* oldCompensatedHours is what the handler reads from the table at that point.
editedOvertimeBalance(balance, oldCompensatedHours, compensatedHours) ==
  (balance + oldCompensatedHours) - compensatedHours

\* upsertOvertimeCompensationMutation: mutationFn, then onSuccess.
\* id = NoId creates, else edits row id.
upsertOvertimeCompensationMutation(id, values, fail) ==
  LET isEdit == id # NoId
      newId == IF isEdit THEN id
               ELSE CHOOSE i \in CompensationIds :
                      /\ overtime_compensations[i] = NoRecord
                      /\ \A j \in CompensationIds :
                            overtime_compensations[j] = NoRecord => i <= j
      \* mutationFn
      fetchOldFailed == isEdit /\ fail = "fetchOld"
      recordFailed == ~fetchOldFailed /\ fail = "writeRecord"
      thrown == fetchOldFailed \/ recordFailed
      tableAfter == IF thrown THEN overtime_compensations
                    ELSE [overtime_compensations EXCEPT ![newId] = compensationPayload(values)]
      \* onSuccess, which runs when mutationFn has returned
      employeeId == values.employee_id
      compensatedHours == values.compensated_hours
      employeeFailed == ~thrown /\ fail = "fetchEmployee"
      refetchFailed == ~thrown /\ ~employeeFailed /\ isEdit /\ fail = "refetchOld"
      oldCompensatedHours == tableAfter[newId].compensated_hours
      newBalance == IF isEdit
                      THEN editedOvertimeBalance(overtime_hours_balance[employeeId],
                                                 oldCompensatedHours, compensatedHours)
                      ELSE createdOvertimeBalance(overtime_hours_balance[employeeId],
                                                  compensatedHours)
      balanceCall == ~thrown /\ ~employeeFailed /\ ~refetchFailed
      balanceFailed == balanceCall /\ fail = "updateBalance"
      balanceWritten == balanceCall /\ ~balanceFailed
      failed == thrown \/ employeeFailed \/ refetchFailed \/ balanceFailed
      \* the tables written to, in the order the calls are issued
      writes == (IF ~fetchOldFailed THEN <<"overtime_compensations">> ELSE <<>>)
                  \o (IF balanceCall THEN <<"employees">> ELSE <<>>)
  IN /\ overtimeOps < MaxOvertimeOps
     /\ fail # "none" => failed
     /\ failed => storeFailures < MaxFailures
     /\ storeFailures' = IF failed THEN storeFailures + 1 ELSE storeFailures
     /\ overtimeOps' = overtimeOps + 1
     /\ overtime_compensations' = tableAfter
     /\ overtime_hours_balance' =
          IF balanceWritten
            THEN [overtime_hours_balance EXCEPT ![employeeId] = newBalance]
            ELSE overtime_hours_balance
     /\ last' = [op |-> IF isEdit THEN "overtime_update" ELSE "overtime_create",
                 id |-> newId, values |-> values, fail |-> fail,
                 \* what the caller is told: the mutation's result, then the toasts
                 outcome |-> IF thrown THEN "error" ELSE "success",
                 balanceWritten |-> balanceWritten,
                 writes |-> writes,
                 \* onError's toast; or onSuccess's, shown before its store
                 \* calls, then the toast of the call of onSuccess that failed
                 toasts |-> IF thrown THEN <<"error">>
                            ELSE IF failed THEN <<"success", "error">>
                            ELSE <<"success">>]
     /\ UNCHANGED <<leaveVars, employees>>

CreateOvertimeCompensation ==
  \E values \in OvertimeCompensationFormValues,
     fail \in {"none"} \cup CompensationStoreCalls :
    /\ values.employee_id \in employees
    /\ \E i \in CompensationIds : overtime_compensations[i] = NoRecord
    /\ upsertOvertimeCompensationMutation(NoId, values, fail)

UpdateOvertimeCompensation ==
  \E id \in CompensationIds, values \in OvertimeCompensationFormValues,
     fail \in {"none"} \cup CompensationStoreCalls :
    /\ overtime_compensations[id] # NoRecord
    /\ values.employee_id \in employees
    /\ upsertOvertimeCompensationMutation(id, values, fail)

\* Deleting: the compensated hours are added back to the balance just read.
deletedOvertimeBalance_deducted(balance, compensated_hours) == balance - compensated_hours
deletedOvertimeBalance(balance, compensated_hours) == balance + compensated_hours

\* deleteCompensationMutation.mutationFn
deleteCompensationMutation(compensationId, fail) ==
  LET oldCompensationData == overtime_compensations[compensationId]
      employee_id == oldCompensationData.employee_id
      compensated_hours == oldCompensationData.compensated_hours
      fetchOldFailed == fail = "fetchOld"
      deleteFailed == ~fetchOldFailed /\ fail = "delete"
      deleted == ~fetchOldFailed /\ ~deleteFailed
      employeeFailed == deleted /\ fail = "fetchEmployee"
      newBalance == deletedOvertimeBalance(overtime_hours_balance[employee_id],
                                           compensated_hours)
      balanceFailed == deleted /\ ~employeeFailed /\ fail = "updateBalance"
      balanceWritten == deleted /\ ~employeeFailed /\ ~balanceFailed
      failed == fetchOldFailed \/ deleteFailed \/ employeeFailed \/ balanceFailed
  IN /\ overtimeOps < MaxOvertimeOps
     /\ fail # "none" => failed
     /\ failed => storeFailures < MaxFailures
     /\ storeFailures' = IF failed THEN storeFailures + 1 ELSE storeFailures
     /\ overtimeOps' = overtimeOps + 1
     /\ overtime_compensations' =
          IF deleted THEN [overtime_compensations EXCEPT ![compensationId] = NoRecord]
          ELSE overtime_compensations
     /\ overtime_hours_balance' =
          IF balanceWritten
            THEN [overtime_hours_balance EXCEPT ![employee_id] = newBalance]
            ELSE overtime_hours_balance
     /\ last' = [op |-> "overtime_delete", id |-> compensationId, fail |-> fail,
                 deleted |-> oldCompensationData,
                 outcome |-> IF failed THEN "error" ELSE "success",
                 balanceWritten |-> balanceWritten]
     /\ UNCHANGED <<leaveVars, employees>>

DeleteOvertimeCompensation ==
  \E id \in CompensationIds, fail \in {"none"} \cup CompensationDeleteCalls :
    /\ overtime_compensations[id] # NoRecord
    /\ deleteCompensationMutation(id, fail)

\* ------------------------------------------------- payroll: net pay
\* Amounts of money count thousandths of the currency unit, so that rounding
\* to two decimals has digits to round away.
Amounts == 0..MaxAmount
PayrollInputs == [baseSalary : Amounts, overtimePay : Amounts, deductions : Amounts]

\* parseFloat(x.toFixed(2)) for x >= 0: the nearest multiples of a hundredth.
\* toFixed rounds the binary value of x, which for a decimal ending in 5
\* thousandths lies just below or just above it (1.005 gives 1.00, 8.345
\* gives 8.35): at such a midpoint either neighbour can be the result.
toFixed2_truncated(x) == {(x \div 10) * 10}
toFixed2(x) ==
  LET down == (x \div 10) * 10
      rest == x % 10
  IN IF rest < 5 THEN {down}
     ELSE IF rest > 5 THEN {down + 10}
     ELSE {down, down + 10}

\* calculateNetPay: the values netPay can take.
calculateNetPay_unclamped(inputs) ==
  toFixed2(inputs.baseSalary + inputs.overtimePay - inputs.deductions)
calculateNetPay(inputs) ==
  LET netPay == inputs.baseSalary + inputs.overtimePay - inputs.deductions
  IN toFixed2(IF netPay < 0 THEN 0 ELSE netPay)

\* The payroll form's effect: net pay computed from the three watched fields.
InitNetPay ==
  InitTables /\ last \in [op : {"payroll_input"}, inputs : PayrollInputs]

CalculateNetPay ==
  /\ last.op = "payroll_input"
  /\ \E netPay \in calculateNetPay(last.inputs) :
       last' = [op |-> "calculateNetPay", inputs |-> last.inputs, netPay |-> netPay]
  /\ UNCHANGED <<leaveVars, overtimeVars, employees, storeFailures>>

NextNetPay == CalculateNetPay

\* -------------------------------------------- attendance: the metrics
\* Times of day are minutes after midnight of the attendance date; NoTime is
\* a time that is null or the empty string, NoNumber a number that is null.
\* Hours are exact in units of 1/6000 hour: a minute is 100 of them, a
\* hundredth of an hour is 60.  The results count hundredths of an hour.
NoTime == 0 - 1
NoNumber == 0 - 1
Minutes == 0..MaxMinute
dayNames ==
  <<"Sunday", "Monday", "Tuesday", "Wednesday", "Thursday", "Friday", "Saturday">>
\* getDay of the attendance dates explored: a Sunday and a Monday.
AttendanceDates == {0, 1}
DaySettings ==
  [day : {"Monday"}, is_work_day : BOOLEAN,
   start_time : {NoTime} \cup Minutes, end_time : {NoTime, MaxMinute},
   break_duration_minutes : {NoNumber} \cup (0..MaxBreak),
   overtime_threshold_hours : {NoNumber} \cup (0..MaxThreshold)]
\* appSettings: null (or without daily_settings), or a list of day settings.
AppSettings ==
  {NoRecord} \cup [daily_settings : {<<>>} \cup {<<d>> : d \in DaySettings}]
AttendanceTimes ==
  [checkInTime : {NoTime} \cup Minutes, checkOutTime : {NoTime} \cup Minutes]
AuthorizationTypes == {"Late Arrival", "Early Departure", "Other"}
AuthorizationStatuses == {"Submitted", "Approved", "Rejected"}
Authorization ==
  [type : AuthorizationTypes, status : AuthorizationStatuses,
   requested_time : {NoTime} \cup Minutes]

\* The lists of authorizations explored: none or one, without requested_time
\* (which the calculation never reads).
AuthorizationLists ==
  {<<>>} \cup {<<a>> : a \in {x \in Authorization : x.requested_time = NoTime}}

\* parseFloat(h.toFixed(2)) for hours h >= 0 in units of 1/6000: the nearest
\* hundredth.  A whole number of minutes less a whole number of hundredths
\* of an hour is never midway between two hundredths.
toFixedHours(h) == (h + 30) \div 60

\* The day's setting lacks what the calculation needs.
daySettingUnusable_breakUnchecked(daySetting) ==
  \/ ~daySetting.is_work_day
  \/ daySetting.start_time = NoTime \/ daySetting.end_time = NoTime
  \/ daySetting.overtime_threshold_hours = NoNumber
daySettingUnusable(daySetting) ==
  \/ ~daySetting.is_work_day
  \/ daySetting.start_time = NoTime \/ daySetting.end_time = NoTime
  \/ daySetting.break_duration_minutes = NoNumber
  \/ daySetting.overtime_threshold_hours = NoNumber

\* Minutes between check-in and check-out, less the break, not below 0.
totalMinutesWorked_breakIgnored(checkIn, checkOut, break_duration_minutes) ==
  checkOut - checkIn
totalMinutesWorked(checkIn, checkOut, break_duration_minutes) ==
  LET minutes == (checkOut - checkIn) - break_duration_minutes
  IN IF minutes < 0 THEN 0 ELSE minutes

\* Minutes of lateness before any authorization is looked at.
minutesLate_orEarly(checkIn, officialStartTime) ==
  IF checkIn > officialStartTime THEN checkIn - officialStartTime
  ELSE officialStartTime - checkIn
minutesLate(checkIn, officialStartTime) ==
  IF checkIn > officialStartTime THEN checkIn - officialStartTime ELSE 0

\* approvedAuthorizations.find: an approved authorization of a late arrival.
approvedLateArrival_anyStatus(approvedAuthorizations) ==
  \E i \in DOMAIN approvedAuthorizations :
    approvedAuthorizations[i].type = "Late Arrival"
approvedLateArrival(approvedAuthorizations) ==
  \E i \in DOMAIN approvedAuthorizations :
    /\ approvedAuthorizations[i].type = "Late Arrival"
    /\ approvedAuthorizations[i].status = "Approved"

\* Hours beyond the day's threshold (both in units of 1/6000 hour).
overtimeBeyond_unthresholded(workedHours, overtime_threshold_hours) ==
  IF workedHours > overtime_threshold_hours THEN workedHours ELSE 0
overtimeBeyond(workedHours, overtime_threshold_hours) ==
  IF workedHours > overtime_threshold_hours
    THEN workedHours - overtime_threshold_hours
    ELSE 0

\* isBefore(checkOut, checkIn): the check-out is strictly before the check-in.
checkOutBeforeCheckIn_orEqual(checkIn, checkOut) == checkOut <= checkIn
checkOutBeforeCheckIn(checkIn, checkOut) == checkOut < checkIn

NoMetrics == [workedHours |-> 0, lateMinutes |-> 0, overtimeHours |-> 0]

calculateAttendanceMetrics(attendanceDate, times, appSettings, approvedAuthorizations) ==
  IF \/ appSettings = NoRecord
     \/ times.checkInTime = NoTime \/ times.checkOutTime = NoTime
    THEN NoMetrics
  ELSE
    LET dayOfWeek == dayNames[attendanceDate + 1]
        found == {i \in DOMAIN appSettings.daily_settings :
                    appSettings.daily_settings[i].day = dayOfWeek}
    IN IF found = {} THEN NoMetrics
       ELSE
         LET daySetting ==
               appSettings.daily_settings[CHOOSE i \in found : \A j \in found : i <= j]
             checkIn == times.checkInTime
             checkOut == times.checkOutTime
         IN IF daySettingUnusable(daySetting) THEN NoMetrics
            ELSE IF checkOutBeforeCheckIn(checkIn, checkOut) THEN NoMetrics
            ELSE
              LET workedHours ==
                    100 * totalMinutesWorked(checkIn, checkOut,
                                             daySetting.break_duration_minutes)
                  lateMinutes ==
                    IF approvedLateArrival(approvedAuthorizations) THEN 0
                    ELSE minutesLate(checkIn, daySetting.start_time)
                  overtimeHours ==
                    overtimeBeyond(workedHours, 60 * daySetting.overtime_threshold_hours)
              IN [workedHours |-> toFixedHours(workedHours),
                  lateMinutes |-> IF lateMinutes < 0 THEN 0 ELSE lateMinutes,
                  overtimeHours |-> toFixedHours(overtimeHours)]

\* The inputs of one call, and the call.
InitAttendance ==
  /\ InitTables
  /\ employees = {"e1"}
  /\ last \in [op : {"attendance_input"}, attendanceDate : AttendanceDates,
               times : AttendanceTimes, appSettings : AppSettings,
               approvedAuthorizations : AuthorizationLists]

CalculateAttendanceMetrics ==
  /\ last.op = "attendance_input"
  /\ last' = [op |-> "calculateAttendanceMetrics",
              attendanceDate |-> last.attendanceDate, times |-> last.times,
              appSettings |-> last.appSettings,
              approvedAuthorizations |-> last.approvedAuthorizations,
              metrics |-> calculateAttendanceMetrics(last.attendanceDate, last.times,
                            last.appSettings, last.approvedAuthorizations)]
  /\ UNCHANGED <<leaveVars, overtimeVars, employees, storeFailures>>

NextAttendance == CalculateAttendanceMetrics

\* ------------------------------------------- attendance: the form
\* AttendanceFormDialog for a new record.  `last` holds the dialog: the form's
\* values after the last event, the schedule its query returned, and the
\* record stored on submit.  Absent stands for every status but Present.
AttendanceStatuses == {"Present", "Absent"}
\* The schedules the form is explored with: none, or a Monday work day
\* without break and with threshold 0.
FormSchedules ==
  {NoRecord} \cup
  {[daily_settings |-> <<d>>] : d \in
     {x \in DaySettings : /\ x.is_work_day /\ x.start_time # NoTime
                          /\ x.end_time # NoTime
                          /\ x.break_duration_minutes = 0
                          /\ x.overtime_threshold_hours = 0}}
\* What the user can type into the three numeric fields.
TypedNumbers == 0..MaxTyped

\* The effect on check_in_time, check_out_time, status and appSettings.  It
\* calls calculateAttendanceMetrics({ checkInTime, checkOutTime }, appSettings):
\* the times land in attendanceDate, the schedule in times, and the
\* parameter appSettings is undefined.
metricsEffect(form, appSettings) ==
  LET checkInTime == form.check_in_time
      checkOutTime == form.check_out_time
      metrics ==
        IF /\ form.status = "Present" /\ checkInTime # NoTime
           /\ checkOutTime # NoTime /\ appSettings # NoRecord
          THEN calculateAttendanceMetrics(
                 [checkInTime |-> checkInTime, checkOutTime |-> checkOutTime],
                 appSettings, NoRecord, <<>>)
          ELSE NoMetrics
  IN [form EXCEPT !.worked_hours = metrics.workedHours,
                  !.late_minutes = metrics.lateMinutes,
                  !.overtime_hours = metrics.overtimeHours]

\* upsertAttendanceMutation's payload: the form's values as they are.
attendancePayload(values) ==
  [date |-> values.date, check_in_time |-> values.check_in_time,
   check_out_time |-> values.check_out_time, status |-> values.status,
   worked_hours |-> values.worked_hours, late_minutes |-> values.late_minutes,
   overtime_hours |-> values.overtime_hours]

InitAttendanceForm ==
  /\ InitTables
  /\ employees = {"e1"}
  /\ \E today \in AttendanceDates, appSettings \in FormSchedules :
       last = [op |-> "attendance_form", event |-> "open", appSettings |-> appSettings,
               form |-> [date |-> today, check_in_time |-> NoTime,
                         check_out_time |-> NoTime, status |-> "Absent",
                         worked_hours |-> 0, late_minutes |-> 0, overtime_hours |-> 0],
               stored |-> NoRecord]

FormOpen == last.op = "attendance_form" /\ last.stored = NoRecord

\* The user changes check-in, check-out or status: the effect runs.
ChangeWatchedField ==
  /\ FormOpen
  /\ \E form \in {[last.form EXCEPT !.check_in_time = t] : t \in {NoTime} \cup Minutes}
               \cup {[last.form EXCEPT !.check_out_time = t] : t \in {NoTime} \cup Minutes}
               \cup {[last.form EXCEPT !.status = st] : st \in AttendanceStatuses} :
       /\ form # last.form
       /\ last' = [last EXCEPT !.event = "change",
                               !.form = metricsEffect(form, last.appSettings)]
  /\ UNCHANGED <<leaveVars, overtimeVars, employees, storeFailures>>

\* The user picks another date: no dependency of the effect changes.
ChangeDate ==
  /\ FormOpen
  /\ \E d \in AttendanceDates :
       /\ d # last.form.date
       /\ last' = [last EXCEPT !.event = "date", !.form.date = d]
  /\ UNCHANGED <<leaveVars, overtimeVars, employees, storeFailures>>

\* The user types into one of the three numeric fields.
TypeNumber ==
  /\ FormOpen
  /\ \E n \in TypedNumbers :
       \E form \in {[last.form EXCEPT !.worked_hours = n],
                     [last.form EXCEPT !.late_minutes = n],
                     [last.form EXCEPT !.overtime_hours = n]} :
         /\ form # last.form
         /\ last' = [last EXCEPT !.event = "type", !.form = form]
  /\ UNCHANGED <<leaveVars, overtimeVars, employees, storeFailures>>

\* onSubmit: the insert of the payload; the dialog closes.
SubmitAttendance ==
  /\ FormOpen
  /\ last' = [last EXCEPT !.event = "submit", !.stored = attendancePayload(last.form)]
  /\ UNCHANGED <<leaveVars, overtimeVars, employees, storeFailures>>

NextAttendanceForm ==
  ChangeWatchedField \/ ChangeDate \/ TypeNumber \/ SubmitAttendance

\* ------------------------------------- payroll: automated overtime pay
\* Dates are a month and a day of 2023; overtime_hours count hundredths of an
\* hour, multipliers count halves (3 is 1.5), so pay counts 1/200.
PayDates == [month : 1..MaxMonth, day : 1..MaxMonthDay]
\* getDay of the first of January and of February 2023: a Sunday, a Wednesday;
\* later months are taken to start on a Wednesday as well.
\* (new Date("yyyy-MM-dd") is that day at midnight UTC; getDay is read in a
\* time zone at or east of UTC, where it is the weekday of the date.)
firstGetDay(month) == IF month = 1 THEN 0 ELSE 3
getDay(date) == (firstGetDay(date.month) + (date.day - 1)) % 7
AttendanceRecords ==
  [employee_id : Employees, date : PayDates,
   overtime_hours : {NoNumber} \cup (0..MaxOvertimeHours)]
\* The attendance table: no, one or two records.
AttendanceTables ==
  {<<>>} \cup {<<r>> : r \in AttendanceRecords}
         \cup {<<r, q>> : r \in AttendanceRecords, q \in AttendanceRecords}
\* The setting of one weekday as far as pay reads it.
PayDaySettings(day) ==
  [day : {day}, is_work_day : BOOLEAN,
   overtime_rate_multiplier : {NoNumber} \cup (0..MaxMultiplier)]
\* app_settings of the user: no row, or settings for Sunday, for Monday, for
\* both or for neither.
PaySettingsRows ==
  {NoRecord} \cup
  [daily_settings :
     {<<>>} \cup {<<d>> : d \in PayDaySettings("Sunday") \cup PayDaySettings("Monday")}
            \cup {<<d, e>> : d \in PayDaySettings("Sunday"), e \in PayDaySettings("Monday")}]
\* The two fetches of getAutomatedOvertimePay.
PayFetches == {"attendance", "app_settings"}
NoEmployee == ""

\* The attendance query: the employee's records from the first to the last
\* day of the month.
attendanceOfMonth(attendance, employeeId, month) ==
  SelectSeq(attendance,
            LAMBDA r : r.employee_id = employeeId /\ r.date.month = month)

\* The settings query's error is thrown unless it says no row was found.
settingsErrorThrown_never(settingsError) == FALSE
settingsErrorThrown(settingsError) ==
  settingsError # "none" /\ settingsError # "PGRST116"

\* daySetting?.overtime_rate_multiplier || 1, in halves: null and 0 are falsy.
overtimeRateMultiplier(daySetting) ==
  IF daySetting = NoRecord THEN 2
  ELSE IF daySetting.overtime_rate_multiplier = NoNumber THEN 2
  ELSE IF daySetting.overtime_rate_multiplier = 0 THEN 2
  ELSE daySetting.overtime_rate_multiplier

\* appSettings?.daily_settings?.find(setting => setting.day === dayOfWeek)
findDaySetting(appSettings, dayOfWeek) ==
  IF appSettings = NoRecord THEN NoRecord
  ELSE LET found == {i \in DOMAIN appSettings.daily_settings :
                       appSettings.daily_settings[i].day = dayOfWeek}
       IN IF found = {} THEN NoRecord
          ELSE appSettings.daily_settings[CHOOSE i \in found : \A j \in found : i <= j]

RECURSIVE totalOvertimePay(_, _)
totalOvertimePay(attendanceRecords, appSettings) ==
  IF attendanceRecords = <<>> THEN 0
  ELSE LET record == Head(attendanceRecords)
           dayOfWeek == dayNames[getDay(record.date) + 1]
           daySetting == findDaySetting(appSettings, dayOfWeek)
           overtimeHours == IF record.overtime_hours = NoNumber THEN 0
                            ELSE record.overtime_hours
       IN overtimeHours * overtimeRateMultiplier(daySetting)
            + totalOvertimePay(Tail(attendanceRecords), appSettings)

\* parseFloat(x.toFixed(2)) for pay x >= 0 in units of 1/200: the hundredths
\* nearest to x, either neighbour at a midpoint.
toFixedPay(x) == IF x % 2 = 0 THEN {x \div 2} ELSE {x \div 2, x \div 2 + 1}

\* getAutomatedOvertimePay: what the promise settles to.  fail names the
\* fetch that returns an error; a settings row that does not exist is the
\* error PGRST116 of the settings query.
getAutomatedOvertimePay(employeeId, month, attendance, settingsRow, fail) ==
  IF employeeId = NoEmployee THEN [outcome |-> "value", values |-> {0}, fetched |-> {}]
  ELSE IF fail = "attendance"
    THEN [outcome |-> "error", error |-> "attendance", fetched |-> {"attendance"}]
  ELSE
    LET attendanceRecords == attendanceOfMonth(attendance, employeeId, month)
        settingsError == IF fail = "app_settings" THEN "app_settings"
                         ELSE IF settingsRow = NoRecord THEN "PGRST116"
                         ELSE "none"
        appSettings == IF settingsError = "none" THEN settingsRow ELSE NoRecord
    IN IF attendanceRecords = <<>>
         THEN [outcome |-> "value", values |-> {0}, fetched |-> {"attendance"}]
       ELSE IF settingsErrorThrown(settingsError)
         THEN [outcome |-> "error", error |-> settingsError, fetched |-> PayFetches]
       ELSE [outcome |-> "value",
             values |-> toFixedPay(totalOvertimePay(attendanceRecords, appSettings)),
             fetched |-> PayFetches]

\* The inputs of one call (the payroll form's query), and the call.
InitOvertimePay ==
  /\ InitTables
  /\ employees = Employees
  /\ last \in [op : {"overtime_pay_input"}, employeeId : {NoEmployee, "e1"},
               month : 1..MaxMonth, attendance : AttendanceTables,
               settingsRow : PaySettingsRows, fail : {"none"} \cup PayFetches]
  \* a fetch that fails is one that is issued
  /\ last.fail = "attendance" => last.employeeId # NoEmployee
  /\ last.fail = "app_settings" =>
       /\ last.employeeId # NoEmployee
       /\ attendanceOfMonth(last.attendance, last.employeeId, last.month) # <<>>
  /\ last.employeeId = NoEmployee => last.attendance = <<>>

GetAutomatedOvertimePay ==
  /\ last.op = "overtime_pay_input"
  /\ LET result == getAutomatedOvertimePay(last.employeeId, last.month,
                      last.attendance, last.settingsRow, last.fail)
     IN \/ /\ result.outcome = "error"
           /\ last' = [op |-> "getAutomatedOvertimePay", employeeId |-> last.employeeId,
                       month |-> last.month, attendance |-> last.attendance,
                       settingsRow |-> last.settingsRow, fail |-> last.fail,
                       outcome |-> "error", error |-> result.error,
                       fetched |-> result.fetched]
        \/ /\ result.outcome = "value"
           /\ \E pay \in result.values :
                last' = [op |-> "getAutomatedOvertimePay", employeeId |-> last.employeeId,
                         month |-> last.month, attendance |-> last.attendance,
                         settingsRow |-> last.settingsRow, fail |-> last.fail,
                         outcome |-> "value", pay |-> pay, fetched |-> result.fetched]
  /\ UNCHANGED <<leaveVars, overtimeVars, employees, storeFailures>>

NextOvertimePay == GetAutomatedOvertimePay

NextOvertime ==
  \/ CreateOvertimeCompensation
  \/ UpdateOvertimeCompensation
  \/ DeleteOvertimeCompensation

NextLeave == CreateLeaveRequest \/ UpdateLeaveRequest \/ DeleteLeaveRequest

NextLeaveStore ==
  CreateLeaveRequestStore \/ UpdateLeaveRequestStore \/ DeleteLeaveRequestStore

Next == NextLeave \/ NextLeaveStore \/ NextOvertime \/ NextNetPay \/ NextAttendance
          \/ NextOvertimePay \/ NextAttendanceForm \/ NextLeaveConcurrent

\* The leave handlers alone, the compensation handlers alone, and both.  The
\* two ledgers write disjoint columns and tables, so a property of one is
\* checked under the specification of its own handlers.
SpecLeave == Init /\ [][NextLeave]_vars
SpecOvertime == Init /\ [][NextOvertime]_vars
SpecLeaveStore == Init /\ [][NextLeaveStore]_vars
\* A pure calculator is applied to inputs drawn in the initial state.
SpecNetPay == InitNetPay /\ [][NextNetPay]_vars
SpecAttendance == InitAttendance /\ [][NextAttendance]_vars
SpecOvertimePay == InitOvertimePay /\ [][NextOvertimePay]_vars
\* Two leave submissions whose store calls interleave.
SpecLeaveConcurrent == InitLeaveConcurrent /\ [][NextLeaveConcurrent]_vars
SpecAttendanceForm == InitAttendanceForm /\ [][NextAttendanceForm]_vars
Spec == Init /\ [][Next]_vars

\* ===================================================================
\* Properties of the leave reconciliation and of the overtime ledger
\* ===================================================================
LeaveUpserts == {"leave_create", "leave_update"}

\* The row a leave upsert found stored (NoRecord when creating), seen from the
\* state before the step that last' describes.
PriorOfStep == IF last'.op = "leave_update" THEN leave_requests[last'.id] ELSE NoRecord

\* The inclusive calendar-day count of a leave: the days from start to end.
CalendarDayCount(startDate, endDate) == Cardinality(startDate..endDate)

DaysForNewRequest(values) ==
  IF values.type = "Annual" /\ values.status = "Approved"
    THEN CalendarDayCount(values.start_date, values.end_date)
    ELSE 0

\* The transition table for balanceDelta, row by row.
TableDelta(prior, values) ==
  LET was == prior # NoRecord /\ prior.status = "Approved" /\ prior.type = "Annual"
      is == values.status = "Approved" /\ values.type = "Annual"
      days == DaysForNewRequest(values)
  IN CASE ~was /\ ~is -> 0
       [] ~was /\ is -> 0 - days
       [] was /\ ~is -> prior.days_deducted
       [] was /\ is /\ prior.days_deducted = days -> 0
       [] was /\ is /\ prior.days_deducted # days -> prior.days_deducted - days

RECURSIVE SumDaysDeducted(_, _)
SumDaysDeducted(e, ids) ==
  IF ids = {} THEN 0
  ELSE LET i == CHOOSE x \in ids : TRUE
           row == leave_requests[i]
           own == IF row # NoRecord /\ row.employee_id = e
                     /\ row.status = "Approved" /\ row.type = "Annual"
                    THEN row.days_deducted ELSE 0
       IN own + SumDaysDeducted(e, ids \ {i})

\* C1: after any sequential series of successful leave creates, updates and
\* deletes in which no edit changes the employee, each employee's balance is
\* the initial balance minus the days_deducted of the stored Approved Annual
\* requests of that employee.
C1_BalanceReflectsApprovedRequests ==
  (storeFailures = 0 /\ ~employeeMoved) =>
    \A e \in Employees :
      annual_leave_balance[e] =
        initial_annual_leave_balance[e] - SumDaysDeducted(e, LeaveIds)

\* C2: every successful leave create or update leaves the employee's balance at
\* the balance it read plus the delta the transition table gives for the stored
\* prior request and the new values.
C2_TransitionTable ==
  [][(last'.op \in LeaveUpserts /\ last'.outcome = "success") =>
       LET e == last'.values.employee_id
       IN annual_leave_balance'[e] =
            annual_leave_balance[e] + TableDelta(PriorOfStep, last'.values)]_vars

\* C2 witness: an approved annual request was edited to a different day count
\* and stayed approved annual.
C2_Witness ==
  /\ last.op = "leave_update" /\ last.outcome = "success"
  /\ isApprovedAnnual(last.values)
  /\ last.values.days_deducted > 0
  /\ leave_requests[last.id].days_deducted > 0
  /\ leave_requests[last.id].days_deducted # last.values.days_deducted

\* C3: a leave create or update whose balance plus table delta is negative ends
\* with the insufficient-balance error, and neither the balances nor the
\* leave_requests table change.
C3_InsufficientBalanceNoWrite ==
  [][(/\ last'.op \in LeaveUpserts /\ last'.fail = "none"
      /\ annual_leave_balance[last'.values.employee_id]
           + TableDelta(PriorOfStep, last'.values) < 0) =>
       (/\ last'.outcome = "insufficient"
        /\ annual_leave_balance' = annual_leave_balance
        /\ leave_requests' = leave_requests)]_vars

\* C3 witness: a request for more days than the balance holds was refused.
C3_Witness ==
  /\ last.op \in LeaveUpserts /\ last.outcome = "insufficient"
  /\ annual_leave_balance[last.values.employee_id]
       < DaysForNewRequest(last.values)

\* C4: deleting a stored Approved Annual request adds its days_deducted to its
\* employee's balance; deleting any other request leaves the balance as it was.
C4_DeleteCreditsBack ==
  [][(last'.op = "leave_delete" /\ last'.outcome = "success") =>
       LET row == leave_requests[last'.id]
           credit == IF row.status = "Approved" /\ row.type = "Annual"
                       THEN row.days_deducted ELSE 0
       IN annual_leave_balance' =
            [annual_leave_balance EXCEPT ![row.employee_id] = @ + credit]]_vars

\* C5: round trip. Creating an Approved Annual request of d days against a
\* balance B >= d leaves the balance at B - d and stores days_deducted = d; the
\* edit that follows and changes only its status to a non-Approved value, or
\* only its type to a non-Annual one, leaves the balance at B and stores
\* days_deducted = 0.
C5_CreatedApprovedAnnual ==
  /\ last.op = "leave_create" /\ last.outcome = "success"
  /\ isApprovedAnnual(last.values)

C5_EditOnlyStatusOrType ==
  /\ last'.op = "leave_update" /\ last'.id = last.id /\ last'.outcome = "success"
  /\ last'.values.employee_id = last.values.employee_id
  /\ last'.values.start_date = last.values.start_date
  /\ last'.values.end_date = last.values.end_date
  /\ \/ last'.values.type = last.values.type /\ last'.values.status # "Approved"
     \/ last'.values.status = last.values.status /\ last'.values.type # "Annual"

C5_RoundTrip ==
  /\ [](C5_CreatedApprovedAnnual =>
          LET d == CalendarDayCount(last.values.start_date, last.values.end_date)
              B == last.oldEmployeeAnnualLeaveBalance
          IN /\ d <= B
             /\ annual_leave_balance[last.values.employee_id] = B - d
             /\ leave_requests[last.id].days_deducted = d)
  /\ [][(C5_CreatedApprovedAnnual /\ C5_EditOnlyStatusOrType) =>
          /\ annual_leave_balance'[last.values.employee_id]
               = last.oldEmployeeAnnualLeaveBalance
          /\ leave_requests'[last.id].days_deducted = 0]_vars

\* C5 witness: the only stored request was approved annual with d > 0 days, an
\* edit has just made it not approved annual, and the balances are back at
\* their initial values.
C5_Witness ==
  /\ last.op = "leave_update" /\ last.outcome = "success"
  /\ ~isApprovedAnnual(last.values)
  /\ last.values.days_deducted > 0
  /\ leave_requests[last.id].days_deducted = 0
  /\ annual_leave_balance = initial_annual_leave_balance
  /\ annual_leave_balance[last.values.employee_id]
       = last.oldEmployeeAnnualLeaveBalance + last.values.days_deducted

\* C6: an edit whose employee, type, status, start_date and end_date equal the
\* stored request succeeds with a zero adjustment, leaves every balance as it
\* was and stores the days_deducted that was stored.
C6_SameFields ==
  LET row == leave_requests[last'.id]
      v == last'.values
  IN /\ last'.op = "leave_update" /\ last'.fail = "none"
     /\ v.employee_id = row.employee_id /\ v.type = row.type
     /\ v.status = row.status /\ v.start_date = row.start_date
     /\ v.end_date = row.end_date

C6_IdempotentUpdate ==
  [][C6_SameFields =>
       (/\ last'.outcome = "success"
        /\ balanceAdjustment(TRUE, originalRequest(leave_requests[last'.id]),
                             last'.values) = 0
        /\ annual_leave_balance' = annual_leave_balance
        /\ leave_requests'[last'.id].days_deducted
             = leave_requests[last'.id].days_deducted)]_vars

\* C6 witness: an approved annual request with days charged was saved again
\* with the fields it already had.
C6_Witness ==
  /\ last.op = "leave_update" /\ last.outcome = "success"
  /\ isApprovedAnnual(last.values)
  /\ last.values.days_deducted > 0
  /\ leave_requests[last.id] = leavePayload(last.values, last.values.days_deducted)
  /\ annual_leave_balance[last.values.employee_id] = last.oldEmployeeAnnualLeaveBalance

\* C7: after a successful leave create or update the stored days_deducted is the
\* inclusive calendar-day count when the new type is Annual and the new status
\* Approved, and 0 otherwise, whatever days_deducted the form values carried.
C7_DaysDeductedStored ==
  (last.op \in LeaveUpserts /\ last.outcome = "success") =>
    /\ leave_requests[last.id].days_deducted = DaysForNewRequest(last.values)
    /\ leave_requests[last.id].type = last.values.type
    /\ leave_requests[last.id].status = last.values.status
    /\ leave_requests[last.id].start_date = last.values.start_date
    /\ leave_requests[last.id].end_date = last.values.end_date

\* C7 witness: the form carried a days_deducted other than the one stored.
C7_Witness ==
  /\ last.op = "leave_update" /\ last.outcome = "success"
  /\ isApprovedAnnual(last.values)
  /\ last.values.days_deducted # leave_requests[last.id].days_deducted
  /\ leave_requests[last.id].days_deducted = MaxDay

\* C8: no sequence of leave creates, updates and deletes leaves a negative
\* annual_leave_balance.
C8_BalanceNeverNegative ==
  \A e \in Employees : annual_leave_balance[e] >= 0

\* C8 witness: a deduction has taken a balance to exactly 0, and a further
\* request against it was refused.
C8_Witness ==
  /\ last.op \in LeaveUpserts /\ last.outcome = "insufficient"
  /\ annual_leave_balance[last.values.employee_id] = 0

\* C9: creating a compensation of h hours against a balance b, every store call
\* succeeding, stores the record and sets the balance to b - h, also when
\* b - h is negative.
C9_CreateCompensationDeducts ==
  [][(last'.op = "overtime_create" /\ last'.fail = "none") =>
       LET e == last'.values.employee_id
           h == last'.values.compensated_hours
       IN /\ last'.outcome = "success"
          /\ overtime_compensations[last'.id] = NoRecord
          /\ overtime_compensations'[last'.id]
               = [employee_id |-> e, compensated_hours |-> h]
          /\ overtime_hours_balance' =
               [overtime_hours_balance EXCEPT ![e] = @ - h]]_vars

\* C9 witness: a compensation was created that took the balance below 0.
C9_Witness ==
  /\ last.op = "overtime_create" /\ last.fail = "none"
  /\ overtime_compensations[last.id] # NoRecord
  /\ overtime_hours_balance[last.values.employee_id] < 0

\* C10: updating a compensation of the same employee from p hours to n hours,
\* no store call having failed, sets the balance to the balance before + p - n.
C10_UpdateCompensationReverts ==
  [][(/\ last'.op = "overtime_update" /\ storeFailures' = 0
      /\ overtime_compensations[last'.id].employee_id = last'.values.employee_id) =>
       LET e == last'.values.employee_id
           p == overtime_compensations[last'.id].compensated_hours
           n == last'.values.compensated_hours
       IN overtime_hours_balance'[e] = (overtime_hours_balance[e] + p) - n]_vars

\* C11: deleting a compensation that stores h hours, every store call
\* succeeding, removes the record and sets the employee's balance to the
\* balance before + h; no other balance and no other record changes.
C11_DeleteCompensationRestores ==
  [][(last'.op = "overtime_delete" /\ last'.fail = "none") =>
       LET row == overtime_compensations[last'.id]
           e == row.employee_id
           h == row.compensated_hours
       IN /\ row # NoRecord
          /\ last'.outcome = "success"
          /\ overtime_compensations' =
               [overtime_compensations EXCEPT ![last'.id] = NoRecord]
          /\ overtime_hours_balance' =
               [overtime_hours_balance EXCEPT ![e] = @ + h]]_vars

\* C11 witness: a compensation was deleted with every call succeeding, and
\* the hours it stored are back on the balance of its employee.
C11_Witness ==
  /\ last.op = "overtime_delete" /\ last.fail = "none"
  /\ overtime_compensations[last.id] = NoRecord
  /\ last.deleted.compensated_hours = MaxHours
  /\ overtime_hours_balance[last.deleted.employee_id] = DefaultOvertimeHoursBalance

CompensationUpserts == {"overtime_create", "overtime_update"}

\* C12: in every reconciliation that writes a balance (leave create or update,
\* compensation create or update) the write to the employee's balance is
\* issued before the write to the leave or compensation record: in the order
\* of the writes of one handler no record write precedes a balance write.
C12_BalanceWriteBeforeRecordWrite ==
  last.op \in LeaveUpserts \cup CompensationUpserts =>
    \A i, j \in DOMAIN last.writes :
      (last.writes[i] = "employees" /\ last.writes[j] # "employees") => i < j

\* A leave create or update that ended on a failed store call ...
LeaveStoreFailure(l) == l.op \in LeaveUpserts /\ l.outcome = "store_error"
\* ... with nothing written at all,
CleanFailure(l) == LeaveStoreFailure(l) /\ ~l.balanceWritten
\* ... with the balance written and the write of the record failed.
PartialFailure(l) ==
  LeaveStoreFailure(l) /\ l.balanceWritten /\ l.fail = "writeRecord"

\* C13: when the balance write of a leave create or update succeeds and the
\* write of the record then fails, what the caller is shown differs from what
\* it is shown after a clean failure, in which nothing was written: a clean
\* failure followed by such a partial failure never shows the same toast twice.
C13_PartialFailureDistinguishable ==
  [][(CleanFailure(last) /\ PartialFailure(last')) => last'.toast # last.toast]_vars

\* C14: every store failure during a compensation create or update (the read
\* of the balance, the read of the prior record and the balance write
\* included) ends the operation in a failure propagated to the caller; it is
\* never reported successful with the record stored and the balance not
\* adjusted.
C14_StoreFailurePropagates ==
  last.op \in CompensationUpserts =>
    /\ last.fail # "none" => (last.outcome = "error" /\ last.toasts = <<"error">>)
    /\ ~(/\ last.outcome = "success"
          /\ overtime_compensations[last.id] = compensationPayload(last.values)
          /\ ~last.balanceWritten)

\* r is x rounded to two decimals: a whole number of hundredths nearest to x
\* (amounts in thousandths).
IsRound2(r, x) == r % 10 = 0 /\ 2 * r <= 2 * x + 10 /\ 2 * x <= 2 * r + 10

\* C15: for non-negative baseSalary, overtimePay and deductions,
\* calculateNetPay returns max(0, baseSalary + overtimePay - deductions)
\* rounded to two decimals; the result is never negative, and it is 0 when
\* the deductions exceed baseSalary + overtimePay.
C15_NetPayClampedRounded ==
  last.op = "calculateNetPay" =>
    LET gross == last.inputs.baseSalary + last.inputs.overtimePay
        exact == gross - last.inputs.deductions
    IN /\ last.netPay >= 0
       /\ IsRound2(last.netPay, IF exact > 0 THEN exact ELSE 0)
       /\ last.inputs.deductions > gross => last.netPay = 0

\* C15 witness: net pay was computed for deductions above a positive
\* baseSalary + overtimePay, and is 0.
C15_Witness ==
  /\ last.op = "calculateNetPay"
  /\ last.inputs.baseSalary > 0 /\ last.inputs.overtimePay > 0
  /\ last.inputs.deductions > last.inputs.baseSalary + last.inputs.overtimePay + 5
  /\ last.netPay = 0

\* ------------------------------------------- attendance: properties
\* The settings of the weekday of the attendance date in call l.
SettingsOfTheDay(l) ==
  IF l.appSettings = NoRecord THEN {}
  ELSE {l.appSettings.daily_settings[i] : i \in
          {j \in DOMAIN l.appSettings.daily_settings :
             l.appSettings.daily_settings[j].day = dayNames[l.attendanceDate + 1]}}

\* One of the short-circuit conditions holds for call l.
ShortCircuit(l) ==
  \/ l.appSettings = NoRecord
  \/ l.times.checkInTime = NoTime \/ l.times.checkOutTime = NoTime
  \/ SettingsOfTheDay(l) = {}
  \/ \E d \in SettingsOfTheDay(l) :
       \/ d.is_work_day = FALSE
       \/ NoTime \in {d.start_time, d.end_time}
       \/ NoNumber \in {d.break_duration_minutes, d.overtime_threshold_hours}
  \/ l.times.checkOutTime < l.times.checkInTime

Computed(l) == l.op = "calculateAttendanceMetrics" /\ ~ShortCircuit(l)
TheDay(l) == CHOOSE d \in SettingsOfTheDay(l) : TRUE

\* C16: calculateAttendanceMetrics returns 0 worked hours, 0 late minutes and
\* 0 overtime hours whenever a short-circuit condition holds (no schedule, a
\* missing check-in or check-out, no setting for the weekday, a non-work day,
\* a setting lacking start_time, end_time, break_duration_minutes or
\* overtime_threshold_hours, check-out before check-in), whatever the other
\* inputs and the authorizations are.
C16_ShortCircuitsReturnZero ==
  (last.op = "calculateAttendanceMetrics" /\ ShortCircuit(last)) =>
    /\ last.metrics.workedHours = 0
    /\ last.metrics.lateMinutes = 0
    /\ last.metrics.overtimeHours = 0

\* C16 witness: the metrics of a work day whose setting lacks only the break
\* duration, with a late check-in and a later check-out, are all 0.
C16_Witness ==
  /\ last.op = "calculateAttendanceMetrics"
  /\ \E d \in SettingsOfTheDay(last) :
       /\ d.is_work_day /\ d.break_duration_minutes = NoNumber
       /\ d.start_time # NoTime /\ d.end_time # NoTime
       /\ d.overtime_threshold_hours = 0
       /\ last.times.checkInTime > d.start_time
  /\ last.times.checkOutTime > last.times.checkInTime
  /\ last.metrics = [workedHours |-> 0, lateMinutes |-> 0, overtimeHours |-> 0]

\* The metrics of call l had its list of authorizations been auths, and had
\* the setting of its day been d.
MetricsWithAuthorizations(l, auths) ==
  calculateAttendanceMetrics(l.attendanceDate, l.times, l.appSettings, auths)
MetricsWithDay(l, d, times) ==
  calculateAttendanceMetrics(l.attendanceDate, times, [daily_settings |-> <<d>>],
                             l.approvedAuthorizations)

\* C17: for inputs that pass the short-circuits, adding an Approved
\* "Late Arrival" authorization makes lateMinutes 0, whatever the gap between
\* check-in and start and whatever its requested_time, and leaves workedHours
\* and overtimeHours as they were; adding an authorization of another type,
\* or one that is Submitted or Rejected, changes nothing.
C17_ApprovedLateArrivalWaivesLateness ==
  Computed(last) =>
    \A a \in Authorization :
      LET added == MetricsWithAuthorizations(last, Append(last.approvedAuthorizations, a))
      IN IF a.type = "Late Arrival" /\ a.status = "Approved"
           THEN /\ added.lateMinutes = 0
                /\ added.workedHours = last.metrics.workedHours
                /\ added.overtimeHours = last.metrics.overtimeHours
           ELSE added = last.metrics

\* C17 witness: a check-in as late as can be, with a Submitted Late Arrival
\* on file, counted late, and hours worked.
C17_Witness ==
  /\ Computed(last)
  /\ last.approvedAuthorizations =
       <<[type |-> "Late Arrival", status |-> "Submitted", requested_time |-> NoTime]>>
  /\ last.metrics.lateMinutes = MaxMinute - 1
  /\ last.metrics.workedHours > 0

\* r hundredths of an hour is minutes / 60 rounded to two decimals.
IsRoundedHours(r, minutes) ==
  60 * r - 100 * minutes <= 30 /\ 100 * minutes - 60 * r <= 30

\* The day of the example: start 08:00, end 17:00, break 60, threshold 8 hours;
\* check-in 08:15, check-out 17:30, a Monday.
ExampleMetrics ==
  calculateAttendanceMetrics(1, [checkInTime |-> 495, checkOutTime |-> 1050],
    [daily_settings |-> <<[day |-> "Monday", is_work_day |-> TRUE,
                           start_time |-> 480, end_time |-> 1020,
                           break_duration_minutes |-> 60,
                           overtime_threshold_hours |-> 800]>>], <<>>)

\* C18: for inputs that pass the short-circuits, workedHours is
\* max(0, minutes from check-in to check-out less the break) / 60 rounded to
\* two decimals (8.25 in the example), and does not depend on the
\* schedule's start_time and end_time.
C18_WorkedHours ==
  /\ ExampleMetrics.workedHours = 825
  /\ Computed(last) =>
       LET d == TheDay(last)
           span == (last.times.checkOutTime - last.times.checkInTime)
                      - d.break_duration_minutes
       IN /\ IsRoundedHours(last.metrics.workedHours, IF span > 0 THEN span ELSE 0)
          /\ \A start \in Minutes, end \in Minutes :
               MetricsWithDay(last, [d EXCEPT !.start_time = start, !.end_time = end],
                              last.times).workedHours = last.metrics.workedHours

\* C18 witness: a day with a break, worked longer than the break.
C18_Witness ==
  /\ Computed(last)
  /\ TheDay(last).break_duration_minutes = MaxBreak
  /\ last.times.checkOutTime - last.times.checkInTime > MaxBreak
  /\ last.metrics.workedHours > 0

\* C19: for inputs that pass the short-circuits and carry no Approved
\* "Late Arrival" authorization, lateMinutes is max(0, check-in - start_time)
\* in minutes (15 in the example), and does not depend on the check-out time
\* or the break.
C19_LateMinutes ==
  /\ ExampleMetrics.lateMinutes = 15
  /\ (/\ Computed(last)
      /\ \A i \in DOMAIN last.approvedAuthorizations :
            ~(/\ last.approvedAuthorizations[i].type = "Late Arrival"
              /\ last.approvedAuthorizations[i].status = "Approved")) =>
       LET d == TheDay(last)
           gap == last.times.checkInTime - d.start_time
       IN /\ last.metrics.lateMinutes = IF gap > 0 THEN gap ELSE 0
          /\ \A out \in Minutes, break \in 0..MaxBreak :
               out >= last.times.checkInTime =>
                 MetricsWithDay(last, [d EXCEPT !.break_duration_minutes = break],
                                [last.times EXCEPT !.checkOutTime = out]).lateMinutes
                   = last.metrics.lateMinutes

\* C19 witness: an early check-in on a day with an Approved Early Departure
\* only: no lateness.
C19_Witness ==
  /\ Computed(last)
  /\ last.approvedAuthorizations =
       <<[type |-> "Early Departure", status |-> "Approved", requested_time |-> NoTime]>>
  /\ last.times.checkInTime < TheDay(last).start_time
  /\ last.metrics.lateMinutes = 0

\* C20: for inputs that pass the short-circuits, overtimeHours is
\* max(0, workedHours - overtime_threshold_hours) rounded to two decimals:
\* 0 when the hours worked are at or below the threshold, else the excess
\* (0.25 in the example).
C20_OvertimeHours ==
  /\ ExampleMetrics.overtimeHours = 25
  /\ Computed(last) =>
       LET d == TheDay(last)
           span == (last.times.checkOutTime - last.times.checkInTime)
                      - d.break_duration_minutes
           worked == IF span > 0 THEN span ELSE 0
           excess == last.metrics.workedHours - d.overtime_threshold_hours
       IN \* of the hours returned
          /\ last.metrics.overtimeHours = IF excess > 0 THEN excess ELSE 0
          \* of the exact hours, threshold in hundredths
          /\ 100 * worked <= 60 * d.overtime_threshold_hours
                => last.metrics.overtimeHours = 0
          /\ 100 * worked > 60 * d.overtime_threshold_hours
                => 60 * last.metrics.overtimeHours
                     - (100 * worked - 60 * d.overtime_threshold_hours) \in -30..30

\* C20 witness: hours worked above a positive threshold.
C20_Witness ==
  /\ Computed(last)
  /\ TheDay(last).overtime_threshold_hours > 0
  /\ last.metrics.overtimeHours > 0
  /\ last.metrics.overtimeHours < last.metrics.workedHours

\* --------------------------------------- automated overtime pay: properties
\* The rows of the attendance table of call l that are of its employee and
\* dated within its month.
RecordsOfTheMonth(l) ==
  {i \in DOMAIN l.attendance :
     /\ l.attendance[i].employee_id = l.employeeId
     /\ l.attendance[i].date.month = l.month}

\* The settings of call l for the weekday of row i.
SettingsOfRecord(l, i) ==
  IF l.settingsRow = NoRecord THEN {}
  ELSE {d \in {l.settingsRow.daily_settings[k] : k \in DOMAIN l.settingsRow.daily_settings} :
          d.day = dayNames[getDay(l.attendance[i].date) + 1]}

\* The multiplier (in halves) configured for row i: that of the setting of
\* its weekday, 1 when the setting or its multiplier is unset.
ConfiguredMultiplier(l, i) ==
  IF \E d \in SettingsOfRecord(l, i) : d.overtime_rate_multiplier # NoNumber
    THEN (CHOOSE d \in SettingsOfRecord(l, i) : TRUE).overtime_rate_multiplier
    ELSE 2

HoursOfRecord(l, i) ==
  IF l.attendance[i].overtime_hours = NoNumber THEN 0 ELSE l.attendance[i].overtime_hours

RECURSIVE ConfiguredPay(_, _)
ConfiguredPay(l, rows) ==
  IF rows = {} THEN 0
  ELSE LET i == CHOOSE k \in rows : TRUE
       IN HoursOfRecord(l, i) * ConfiguredMultiplier(l, i) + ConfiguredPay(l, rows \ {i})

\* pay (hundredths) is x (in 1/200) rounded to two decimals.
IsRoundedPay(pay, x) == 2 * pay - x \in {0 - 1, 0, 1}

\* The example: 1.0 hour on a Sunday at 1.5 and 2.0 hours on a Monday at 2.0.
ExampleOvertimePay ==
  getAutomatedOvertimePay("e1", 1,
    <<[employee_id |-> "e1", date |-> [month |-> 1, day |-> 1], overtime_hours |-> 100],
      [employee_id |-> "e1", date |-> [month |-> 1, day |-> 2], overtime_hours |-> 200]>>,
    [daily_settings |->
       <<[day |-> "Sunday", is_work_day |-> TRUE, overtime_rate_multiplier |-> 3],
         [day |-> "Monday", is_work_day |-> TRUE, overtime_rate_multiplier |-> 4]>>],
    "none")

\* C21: getAutomatedOvertimePay returns, rounded to two decimals, the sum over
\* the employee's attendance records dated within the requested month of
\* overtime_hours times the overtime_rate_multiplier of the setting of the
\* record's weekday, with multiplier 1 when that setting or its multiplier is
\* unset; the example gives 5.5.
C21_OvertimePayIsSumOfHoursTimesMultiplier ==
  /\ ExampleOvertimePay.values = {550}
  /\ (last.op = "getAutomatedOvertimePay" /\ last.outcome = "value") =>
       IsRoundedPay(last.pay, ConfiguredPay(last, RecordsOfTheMonth(last)))

\* C22: in getAutomatedOvertimePay a failure of the attendance query or of
\* the app_settings query is propagated to the caller as that failure and
\* never becomes a number; a number is returned only when every query that
\* was issued succeeded.  (A settings row that does not exist is not a
\* failure of the query: it is the case of unset settings.)
C22_FetchFailurePropagates ==
  last.op = "getAutomatedOvertimePay" =>
    /\ last.fail # "none" => (last.outcome = "error" /\ last.error = last.fail)
    /\ last.outcome = "value" => last.fail \notin last.fetched

\* C22 witness: the attendance query returned records of the month, then the
\* settings query failed, and the call failed with that error.
C22_Witness ==
  /\ last.op = "getAutomatedOvertimePay"
  /\ last.fail = "app_settings" /\ last.outcome = "error"
  /\ \E i \in RecordsOfTheMonth(last) : last.attendance[i].overtime_hours > 0
  /\ last.settingsRow # NoRecord

\* The settings row of call l with the multiplier of weekday day set to m.
WithMultiplier(l, day, m) ==
  [daily_settings |->
     [k \in DOMAIN l.settingsRow.daily_settings |->
        IF l.settingsRow.daily_settings[k].day = day
          THEN [l.settingsRow.daily_settings[k] EXCEPT !.overtime_rate_multiplier = m]
          ELSE l.settingsRow.daily_settings[k]]]

\* C23: the fields of a setting with is_work_day = false contribute to no
\* calculation: for an attendance record on a non-work weekday the value of
\* that day's overtime_rate_multiplier has no effect on the result of
\* getAutomatedOvertimePay.
C23_NonWorkDayMultiplierUnused ==
  (last.op = "getAutomatedOvertimePay" /\ last.outcome = "value") =>
    \A i \in RecordsOfTheMonth(last) :
      \A d \in SettingsOfRecord(last, i) :
        ~d.is_work_day =>
          \A m \in {NoNumber} \cup (0..MaxMultiplier) :
            last.pay \in getAutomatedOvertimePay(last.employeeId, last.month,
                           last.attendance, WithMultiplier(last, d.day, m),
                           last.fail).values

\* The attendance table of call l with the overtime hours of row i set to 0.
WithoutHours(l, i) == [l.attendance EXCEPT ![i].overtime_hours = 0]

\* C29: in getAutomatedOvertimePay a configured overtime_rate_multiplier is
\* the factor applied, and only a missing multiplier or setting falls back to
\* 1: a record on a day configured with multiplier 0 contributes 0 to the
\* total, so the result is what it would be had the record no overtime hours.
C29_MultiplierZeroContributesNothing ==
  (last.op = "getAutomatedOvertimePay" /\ last.outcome = "value") =>
    \A i \in RecordsOfTheMonth(last) :
      (\E d \in SettingsOfRecord(last, i) : d.overtime_rate_multiplier = 0) =>
        last.pay \in getAutomatedOvertimePay(last.employeeId, last.month,
                       WithoutHours(last, i), last.settingsRow, last.fail).values

\* C24: a leave request whose end_date is before its start_date is rejected
\* before anything is computed or stored: every stored leave request has
\* end_date >= start_date, and no handler has completed for such a request.
C24_InvertedRangeRejected ==
  /\ \A id \in LeaveIds :
       leave_requests[id] # NoRecord =>
         leave_requests[id].end_date >= leave_requests[id].start_date
  /\ (last.op \in LeaveUpserts /\ last.values.end_date < last.values.start_date)
       => (last.outcome # "success" /\ last.writes = <<>>)

\* C25: the worked_hours, late_minutes and overtime_hours stored on an
\* attendance record are derived: when its status is Present and check-in,
\* check-out and a schedule are there, the values the form stores are those
\* of calculateAttendanceMetrics for the record's date, its times and the
\* schedule.
C25_StoredMetricsAreDerived ==
  (/\ last.op = "attendance_form" /\ last.stored # NoRecord
   /\ last.stored.status = "Present" /\ last.appSettings # NoRecord
   /\ last.stored.check_in_time # NoTime /\ last.stored.check_out_time # NoTime) =>
    LET metrics == calculateAttendanceMetrics(last.stored.date,
                     [checkInTime |-> last.stored.check_in_time,
                      checkOutTime |-> last.stored.check_out_time],
                     last.appSettings, <<>>)
    IN /\ last.stored.worked_hours = metrics.workedHours
       /\ last.stored.late_minutes = metrics.lateMinutes
       /\ last.stored.overtime_hours = metrics.overtimeHours

\* ------------------------------------- two submissions at once: properties
\* Both submissions are stored as Approved Annual requests of one employee,
\* and both had read the same balance.
BothStoredOnOneRead ==
  /\ last.op = "concurrent"
  /\ \A s \in Submissions :
       /\ last.submission[s].pc = "done"
       /\ isApprovedAnnual(last.submission[s].values)
       /\ leave_requests[last.submission[s].id].days_deducted > 0
  /\ last.submission[1].values.employee_id = last.submission[2].values.employee_id
  /\ last.submission[1].oldEmployeeAnnualLeaveBalance
       = last.submission[2].oldEmployeeAnnualLeaveBalance

\* C26: the reconciliation is an unprotected read-modify-write.  When two
\* submissions for one employee interleave so that both read
\* annual_leave_balance before either writes it, both requests end up stored
\* as Approved Annual while the balance shows only one of the two deductions:
\* it is the balance read less the days of one request, never of both.
C26_LostUpdate ==
  BothStoredOnOneRead =>
    LET e == last.submission[1].values.employee_id
        read == last.submission[1].oldEmployeeAnnualLeaveBalance
    IN /\ read = initial_annual_leave_balance[e]
       /\ \E s \in Submissions :
            annual_leave_balance[e] = read - leave_requests[last.submission[s].id].days_deducted
       /\ annual_leave_balance[e] >
            read - (leave_requests[1].days_deducted + leave_requests[2].days_deducted)

\* C26 witness: both requests stored, their days together above the initial
\* balance, and a balance that is not negative.
C26_Witness ==
  /\ BothStoredOnOneRead
  /\ leave_requests[1].days_deducted + leave_requests[2].days_deducted
       > initial_annual_leave_balance[last.submission[1].values.employee_id]
  /\ annual_leave_balance[last.submission[1].values.employee_id] >= 0

RECURSIVE SumCompensatedHours(_, _)
SumCompensatedHours(e, ids) ==
  IF ids = {} THEN 0
  ELSE LET i == CHOOSE k \in ids : TRUE
       IN (IF overtime_compensations[i] # NoRecord
              /\ overtime_compensations[i].employee_id = e
             THEN overtime_compensations[i].compensated_hours ELSE 0)
          + SumCompensatedHours(e, ids \ {i})

\* C27: conservation of the overtime ledger.  After any series of
\* compensation creates, updates and deletes, run one after the other with
\* every store call succeeding, an employee's overtime_hours_balance plus
\* the compensated_hours of the employee's stored compensations is the
\* employee's initial overtime_hours_balance.
C27_OvertimeLedgerConserved ==
  storeFailures = 0 =>
    \A e \in employees :
      overtime_hours_balance[e] + SumCompensatedHours(e, CompensationIds)
        = DefaultOvertimeHoursBalance

\* C28: when an edit changes the employee_id of a leave request, the days
\* deducted before are credited to the employee who held the request and the
\* new deduction is charged to the employee now selected, so that each
\* employee's balance still matches that employee's own requests.
C28_EmployeeChangeMovesDeduction ==
  [][(/\ last'.op = "leave_update" /\ last'.outcome = "success"
      /\ leave_requests[last'.id].employee_id # last'.values.employee_id) =>
       LET from == leave_requests[last'.id].employee_id
           to == last'.values.employee_id
           credited == IF wasApprovedAnnual(leave_requests[last'.id])
                         THEN leave_requests[last'.id].days_deducted ELSE 0
           charged == leave_requests'[last'.id].days_deducted
       IN /\ annual_leave_balance'[from] = annual_leave_balance[from] + credited
          /\ annual_leave_balance'[to] = annual_leave_balance[to] - charged]_vars

\* C30: calculateAttendanceMetrics, for a break and a threshold that are not
\* negative, returns workedHours, lateMinutes and overtimeHours that are not
\* negative, with overtimeHours at most workedHours.  A check-out equal to the
\* check-in on a work day is not short-circuited: workedHours and
\* overtimeHours are 0 and lateMinutes is max(0, check-in - start_time), or 0
\* with an Approved "Late Arrival" authorization.
C30_MetricsBoundedAndBoundary ==
  last.op = "calculateAttendanceMetrics" =>
    /\ last.metrics.workedHours >= 0
    /\ last.metrics.lateMinutes >= 0
    /\ last.metrics.overtimeHours >= 0
    /\ last.metrics.overtimeHours <= last.metrics.workedHours
    /\ (Computed(last) /\ last.times.checkOutTime = last.times.checkInTime) =>
         LET gap == last.times.checkInTime - TheDay(last).start_time
             authorized ==
               \E i \in DOMAIN last.approvedAuthorizations :
                 /\ last.approvedAuthorizations[i].type = "Late Arrival"
                 /\ last.approvedAuthorizations[i].status = "Approved"
         IN /\ last.metrics.workedHours = 0
            /\ last.metrics.overtimeHours = 0
            /\ last.metrics.lateMinutes
                 = IF authorized \/ gap < 0 THEN 0 ELSE gap

\* C30 witness: a check-out at the minute of a late check-in on a work day,
\* without authorization: no hours, and the lateness is reported.
C30_Witness ==
  /\ Computed(last)
  /\ last.times.checkOutTime = last.times.checkInTime
  /\ last.approvedAuthorizations = <<>>
  /\ last.times.checkInTime > TheDay(last).start_time
  /\ last.metrics.workedHours = 0
  /\ last.metrics.lateMinutes > 0

====
